---- MODULE Spec2Model ----
(***************************************************************************)
(* Model of the document analyzer:                                         *)
(*   - the /analyze request path: routes.analyze_document ->               *)
(*     DocumentAnalysisAgent.analyze_document -> GeminiService ->          *)
(*     AnalysisResult (pydantic) validation;                               *)
(*   - VectorDBService._chunk_text, one loop iteration per step.           *)
(*                                                                         *)
(* Encoding of values                                                      *)
(*   - a string whose content no code path inspects (summary, list items)  *)
(*     is kept by its length or by a name;                                 *)
(*   - confidence is kept in tenths: 0.0 is 0 and 1.0 is 10;               *)
(*   - a field of the raw JSON object is [tag, v] with tag "absent" (key   *)
(*     not in the object), "mistyped" (a value pydantic's type validator   *)
(*     of the field refuses) or "ok" (a value of the declared type);       *)
(*   - an optional value is a sequence of length 0 or 1.                   *)
(***************************************************************************)
EXTENDS Integers, Sequences, FiniteSets, TLC

VARIABLES
    pc,             \* position of the /analyze request handler
    genCalls,       \* generate_content calls made for the current request
    response_text,  \* raw_response of generate_structured_response
    response_json,  \* value returned by extract_json_from_response
    validation,     \* outcome of AnalysisResult(**response_json)
    agentOutcome,   \* how agent.analyze_document ended (return / raise)
    httpResponse,   \* the AnalyzeResponse of the endpoint
    text,           \* _chunk_text: argument text
    chunk_size,     \* _chunk_text: argument chunk_size
    overlap,        \* _chunk_text: argument overlap
    start,          \* _chunk_text: local start
    chunks,         \* _chunk_text: local chunks
    iterations,     \* _chunk_text: loop iterations run so far
    spans,          \* _chunk_text: history of the windows [start, end) cut
    cpc,            \* _chunk_text: position ("idle", "loop", "done")
    first_result,   \* what an earlier call of _chunk_text returned
    guideline_embeddings, \* EmbeddingService.guideline_embeddings
    top_k,          \* retrieve_relevant_guidelines: argument top_k
    query_embedding,\* retrieve_relevant_guidelines: local query_embedding
    similarities,   \* retrieve_relevant_guidelines: local similarities
    retrieved,      \* retrieve_relevant_guidelines: indices of the result
    rpc,            \* retrieve_relevant_guidelines: position
    collection,     \* VectorDBService.collection: the chunks stored
    used_ids,       \* document ids handed out by uuid.uuid4() so far
    delete_call,    \* the DELETE /documents request being answered, if any
    deleted_ids,    \* uploaded documents delete_document was called for
    qa_top_k,       \* answer_question: argument top_k
    qa_document_id, \* answer_question: argument document_id
    qa_query_embedding, \* search: local query_embedding
    search_results, \* answer_question: local search_results
    context_parts,  \* answer_question: local context_parts
    sources,        \* answer_question: local sources
    qaCalls,        \* calls of llm_service.generate_response by the QA agent
    qaOutcome,      \* how answer_question ended
    qpc,            \* answer_question: position
    instance,       \* the module-level singleton variable of each accessor
    constructed,    \* instances constructed so far, for each accessor
    handed_out,     \* the instances each accessor has returned so far
    tpc             \* each thread: the accessor it is in and its position

analyzeVars == <<pc, genCalls, response_text, response_json, validation,
                 agentOutcome, httpResponse>>
chunkVars == <<text, chunk_size, overlap, start, chunks, iterations, spans,
              cpc, first_result>>
retrieveVars == <<guideline_embeddings, top_k, query_embedding, similarities,
                  retrieved, rpc>>
storeVars == <<collection, used_ids, delete_call, deleted_ids>>
qaVars == <<qa_top_k, qa_document_id, qa_query_embedding, search_results,
            context_parts, sources, qaCalls, qaOutcome, qpc>>
singletonVars == <<instance, constructed, handed_out, tpc>>
vars == <<pc, genCalls, response_text, response_json, validation,
          agentOutcome, httpResponse, text, chunk_size, overlap, start,
          chunks, iterations, spans, cpc, first_result,
          guideline_embeddings, top_k,
          query_embedding, similarities, retrieved, rpc, collection,
          used_ids, delete_call, deleted_ids, qa_top_k, qa_document_id, qa_query_embedding,
          search_results, context_parts, sources, qaCalls, qaOutcome, qpc,
          instance, constructed, handed_out, tpc>>

(***************************************************************************)
(* Bounds of the model                                                     *)
(***************************************************************************)
MaxItems == 2        \* longest missing_points / evidence list generated
MaxTextLen == 8      \* longest text given to _chunk_text
MaxChunkSize == 7    \* largest chunk_size given to _chunk_text
MaxIterations == 10  \* loop iterations of _chunk_text that are followed
MaxTopK == 5         \* largest top_k given to a retrieval
MaxNegTopK == 2      \* the smallest top_k given to a retrieval is -MaxNegTopK
MaxChunksPerDoc == 2 \* chunks a stored document is split into, at most

(***************************************************************************)
(* Constants of the program                                                *)
(***************************************************************************)
min_length == 10     \* summary: Field(min_length=10)
max_length == 500    \* summary: Field(max_length=500)
min_items == 1       \* evidence: Field(min_items=1)
ge == 0              \* confidence: Field(ge=0.0), in tenths
le == 10             \* confidence: Field(le=1.0), in tenths
NumGuidelines == 4   \* len(ANALYSIS_GUIDELINES)

StatusLiteral == {"complete", "partial", "unknown"}
FieldNames == <<"summary", "completeness_status", "missing_points",
                "evidence", "confidence">>

(***************************************************************************)
(* Generic helpers                                                         *)
(***************************************************************************)
Min(a, b) == IF a <= b THEN a ELSE b
Max(a, b) == IF a >= b THEN a ELSE b
SeqsUpTo(S, n) == UNION {[1..k -> S] : k \in 0..n}

(***************************************************************************)
(* The raw structures a generator may produce                              *)
(***************************************************************************)
Absent(d) == [tag |-> "absent", v |-> d]
Mistyped(d) == [tag |-> "mistyped", v |-> d]
Ok(x) == [tag |-> "ok", v |-> x]

ItemNames == {"p", "q"}
Lists == SeqsUpTo(ItemNames, MaxItems)

SummaryInputs ==
    {Absent(0), Mistyped(0)} \cup
    {Ok(n) : n \in {min_length - 1, min_length, max_length, max_length + 1}}
StatusInputs ==
    {Absent(""), Mistyped("")} \cup
    {Ok(s) : s \in StatusLiteral \cup {"finished"}}
ListInputs == {Absent(<<>>), Mistyped(<<>>)} \cup {Ok(l) : l \in Lists}
ConfidenceInputs ==
    {Absent(0), Mistyped(0)} \cup {Ok(c) : c \in {ge - 1, ge, le, le + 1}}

RawObjects ==
    [summary : SummaryInputs, completeness_status : StatusInputs,
     missing_points : ListInputs, evidence : ListInputs,
     confidence : ConfidenceInputs]

EmptyObject ==
    [summary |-> Absent(0), completeness_status |-> Absent(""),
     missing_points |-> Absent(<<>>), evidence |-> Absent(<<>>),
     confidence |-> Absent(0)]

(***************************************************************************)
(* AnalysisResult: pydantic validation of one raw object.                  *)
(* Every field is validated, in declaration order, and the errors of all   *)
(* failing fields are collected into one ValidationError.                  *)
(***************************************************************************)
FieldOk(x) == [ok |-> TRUE, v |-> <<x>>, type |-> ""]
FieldError(t) == [ok |-> FALSE, v |-> <<>>, type |-> t]

\* summary: str = Field(..., min_length=10, max_length=500)
validate_summary(f) ==
    IF f.tag = "absent" THEN FieldError("value_error.missing")
    ELSE IF f.tag = "mistyped" THEN FieldError("type_error.str")
    ELSE IF f.v < min_length THEN FieldError("value_error.any_str.min_length")
    ELSE IF f.v > max_length THEN FieldError("value_error.any_str.max_length")
    ELSE FieldOk(f.v)

\* completeness_status: Literal["complete", "partial", "unknown"] = Field(...)
\* A Literal field refuses every value outside the set with the same error,
\* whatever the value's type.
validate_completeness_status(f) ==
    IF f.tag = "absent" THEN FieldError("value_error.missing")
    ELSE IF f.tag = "mistyped" \/ f.v \notin StatusLiteral
         THEN FieldError("value_error.const")
    ELSE FieldOk(f.v)

\* Mutant: the cross-field rule is not applied.
validate_missing_points_with_status_unchecked(v, status) == FieldOk(v)

\* Mutant: the validator forgets to return v.
validate_missing_points_with_status_dropping(v, status) ==
    IF status.ok /\ status.v[1] = "complete" /\ Len(v) > 0
    THEN FieldError("value_error")
    ELSE FieldOk(<<>>)

\* @validator('missing_points'); status is the outcome of the field
\* completeness_status: the key is in `values` only when that field passed.
validate_missing_points_with_status(v, status) ==
    IF status.ok /\ status.v[1] = "complete" /\ Len(v) > 0
    THEN FieldError("value_error")
    ELSE FieldOk(v)

\* Mutant: missing_points declared required, Field(...).
validate_missing_points_required(f, status) ==
    IF f.tag = "absent" THEN FieldError("value_error.missing")
    ELSE IF f.tag = "mistyped" THEN FieldError("type_error.list")
    ELSE validate_missing_points_with_status(f.v, status)

\* missing_points: List[str] = Field(default_factory=list); the validator
\* runs on a supplied value only, after the type check of the list.
validate_missing_points(f, status) ==
    IF f.tag = "absent" THEN FieldOk(<<>>)
    ELSE IF f.tag = "mistyped" THEN FieldError("type_error.list")
    ELSE validate_missing_points_with_status(f.v, status)

\* Mutant: evidence without min_items.
validate_evidence_unbounded(f) ==
    IF f.tag = "absent" THEN FieldError("value_error.missing")
    ELSE IF f.tag = "mistyped" THEN FieldError("type_error.list")
    ELSE FieldOk(f.v)

\* evidence: List[str] = Field(..., min_items=1)
validate_evidence(f) ==
    IF f.tag = "absent" THEN FieldError("value_error.missing")
    ELSE IF f.tag = "mistyped" THEN FieldError("type_error.list")
    ELSE IF Len(f.v) < min_items THEN FieldError("value_error.list.min_items")
    ELSE FieldOk(f.v)

\* Mutant: the bounds of confidence are exclusive (gt / lt).
validate_confidence_exclusive(f) ==
    IF f.tag = "absent" THEN FieldError("value_error.missing")
    ELSE IF f.tag = "mistyped" THEN FieldError("type_error.float")
    ELSE IF ~(f.v > ge) THEN FieldError("value_error.number.not_ge")
    ELSE IF ~(f.v < le) THEN FieldError("value_error.number.not_le")
    ELSE FieldOk(f.v)

\* confidence: float = Field(..., ge=0.0, le=1.0)
validate_confidence(f) ==
    IF f.tag = "absent" THEN FieldError("value_error.missing")
    ELSE IF f.tag = "mistyped" THEN FieldError("type_error.float")
    ELSE IF ~(f.v >= ge) THEN FieldError("value_error.number.not_ge")
    ELSE IF ~(f.v <= le) THEN FieldError("value_error.number.not_le")
    ELSE FieldOk(f.v)

\* The outcomes of the five fields, in declaration order.
FieldOutcomes(raw) ==
    LET status == validate_completeness_status(raw.completeness_status)
    IN  <<validate_summary(raw.summary),
          status,
          validate_missing_points(raw.missing_points, status),
          validate_evidence(raw.evidence),
          validate_confidence(raw.confidence)>>

RECURSIVE ErrorsFrom(_, _)
ErrorsFrom(outs, i) ==
    IF i > Len(outs) THEN <<>>
    ELSE IF outs[i].ok THEN ErrorsFrom(outs, i + 1)
    ELSE <<[loc |-> FieldNames[i], type |-> outs[i].type]>>
         \o ErrorsFrom(outs, i + 1)

\* Mutant: validation stops at the first failing field.
CollectErrorsFirstOnly(outs) ==
    LET all == ErrorsFrom(outs, 1)
    IN  IF all = <<>> THEN <<>> ELSE <<all[1]>>

\* e.errors(): one entry for each failing field, in declaration order.
CollectErrors(outs) == ErrorsFrom(outs, 1)

\* AnalysisResult(**raw) for a dict raw: the model instance, or the
\* ValidationError with its errors.
AnalysisResult(raw) ==
    LET outs == FieldOutcomes(raw)
        errors == CollectErrors(outs)
    IN  IF errors = <<>>
        THEN [ok |-> TRUE, exc |-> "",
              result |-> <<[summary |-> outs[1].v[1],
                            completeness_status |-> outs[2].v[1],
                            missing_points |-> outs[3].v[1],
                            evidence |-> outs[4].v[1],
                            confidence |-> outs[5].v[1]]>>,
              errors |-> <<>>]
        ELSE [ok |-> FALSE, exc |-> "ValidationError", result |-> <<>>,
              errors |-> errors]

NotValidated == [ok |-> FALSE, exc |-> "", result |-> <<>>, errors |-> <<>>]

\* The output contract of an AnalysisResult instance r.
Contract(r) ==
    /\ r.summary >= min_length /\ r.summary <= max_length
    /\ r.completeness_status \in StatusLiteral
    /\ Len(r.evidence) >= min_items
    /\ r.confidence >= ge /\ r.confidence <= le
    /\ (r.completeness_status = "complete" => r.missing_points = <<>>)


(***************************************************************************)
(* Exceptions.  pydantic's ValidationError derives from ValueError.        *)
(***************************************************************************)
IsInstance(exc, cls) ==
    \/ cls = "Exception"
    \/ exc = cls
    \/ (exc = "ValidationError" /\ cls = "ValueError")

\* raise ValidationError(f"LLM output validation failed. ..."): pydantic's
\* ValidationError cannot be built from one message string (v1 requires
\* (errors, model), v2 defines no constructor); the call raises TypeError and
\* that is the exception that leaves the except block.
ConstructValidationError == "TypeError"

(***************************************************************************)
(* Generator responses and extract_json_from_response                      *)
(***************************************************************************)
\* The texts the generator may return: one holding a JSON object (alone,
\* in a code block or with text around it), one with braces around
\* something that is no JSON, one that is a JSON value without any brace
\* (an array, a number, null), one that is no JSON.
Responses ==
    {[kind |-> "object", obj |-> o] : o \in RawObjects} \cup
    {[kind |-> k, obj |-> EmptyObject] :
        k \in {"broken", "array", "number", "null", "prose"}}

NoResponse == [kind |-> "none", obj |-> EmptyObject]
NoJson == [isdict |-> FALSE, obj |-> EmptyObject]

\* One of the two re.search calls finds braces with something between.
HasBraces(t) == t.kind \in {"object", "broken"}

\* json_str: the text between the braces found, or else the whole text
\* stripped.  It is described by what json.loads makes of it.
JsonStr(t) ==
    IF HasBraces(t)
    THEN IF t.kind = "object" THEN "dict" ELSE "JSONDecodeError"
    ELSE IF t.kind \in {"array", "number", "null"} THEN t.kind
    ELSE "JSONDecodeError"

\* json.loads of the extracted string: JSONDecodeError becomes ValueError;
\* otherwise the parsed value is returned, dict or not.
extract_json_from_response(t) ==
    IF JsonStr(t) = "JSONDecodeError"
    THEN [exc |-> "ValueError", value |-> NoJson]
    ELSE IF JsonStr(t) = "dict"
    THEN [exc |-> "", value |-> [isdict |-> TRUE, obj |-> t.obj]]
    ELSE [exc |-> "", value |-> [isdict |-> FALSE, obj |-> EmptyObject]]

(***************************************************************************)
(* The /analyze request                                                    *)
(***************************************************************************)
NoOutcome == [kind |-> "none", exc |-> "", result |-> <<>>]
Returned(r) == [kind |-> "returned", exc |-> "", result |-> <<r>>]
Raised(e) == [kind |-> "raised", exc |-> e, result |-> <<>>]
NoHttpResponse == [sent |-> FALSE, success |-> FALSE, result |-> <<>>,
                   error |-> ""]

AnalyzeIdle ==
    /\ pc = "idle"
    /\ genCalls = 0
    /\ response_text = NoResponse
    /\ response_json = NoJson
    /\ validation = NotValidated
    /\ agentOutcome = NoOutcome
    /\ httpResponse = NoHttpResponse

\* routes.analyze_document is entered with a valid AnalyzeRequest.
Request ==
    /\ pc \in {"idle", "responded"}
    /\ pc' = "retrieve"
    /\ genCalls' = 0
    /\ response_text' = NoResponse
    /\ response_json' = NoJson
    /\ validation' = NotValidated
    /\ agentOutcome' = NoOutcome
    /\ httpResponse' = NoHttpResponse
    /\ UNCHANGED <<chunkVars, retrieveVars, storeVars, qaVars,
                 singletonVars>>

\* agent steps 1 and 2: retrieve_relevant_guidelines(top_k=2) and
\* build_complete_prompt; the embedder may fail with an opaque exception.
RetrieveGuidelines ==
    /\ pc = "retrieve"
    /\ \E failed \in BOOLEAN :
          IF failed
          THEN /\ agentOutcome' = Raised("Exception")
               /\ pc' = "agent_done"
          ELSE /\ pc' = "generate"
               /\ UNCHANGED agentOutcome
    /\ UNCHANGED <<genCalls, response_text, response_json, validation,
                   httpResponse>>
    /\ UNCHANGED <<chunkVars, retrieveVars, storeVars, qaVars,
                 singletonVars>>

\* GeminiService.generate_response: one generate_content call; any failure
\* is re-raised as Exception("Gemini API error: ...").
GenerateResponse ==
    /\ pc = "generate"
    /\ genCalls' = genCalls + 1
    /\ \/ /\ agentOutcome' = Raised("Exception")
          /\ pc' = "agent_done"
          /\ UNCHANGED response_text
       \/ \E t \in Responses :
             /\ response_text' = t
             /\ pc' = "extract"
             /\ UNCHANGED agentOutcome
    /\ UNCHANGED <<response_json, validation, httpResponse>>
    /\ UNCHANGED <<chunkVars, retrieveVars, storeVars, qaVars,
                 singletonVars>>

\* Mutant: a parse failure asks the generator again.
ExtractJsonRetrying ==
    /\ pc = "extract"
    /\ LET r == extract_json_from_response(response_text)
       IN  IF r.exc # ""
           THEN /\ pc' = "generate"
                /\ UNCHANGED <<response_json, agentOutcome>>
           ELSE /\ response_json' = r.value
                /\ pc' = "validate"
                /\ UNCHANGED agentOutcome
    /\ UNCHANGED <<genCalls, response_text, validation, httpResponse>>
    /\ UNCHANGED <<chunkVars, retrieveVars, storeVars, qaVars,
                 singletonVars>>

\* generate_structured_response, second half: extract_json_from_response.
ExtractJson ==
    /\ pc = "extract"
    /\ LET r == extract_json_from_response(response_text)
       IN  IF r.exc # ""
           THEN /\ agentOutcome' = Raised(r.exc)
                /\ pc' = "agent_done"
                /\ UNCHANGED response_json
           ELSE /\ response_json' = r.value
                /\ pc' = "validate"
                /\ UNCHANGED agentOutcome
    /\ UNCHANGED <<genCalls, response_text, validation, httpResponse>>
    /\ UNCHANGED <<chunkVars, retrieveVars, storeVars, qaVars,
                 singletonVars>>

\* result = AnalysisResult(**response_json); ** of a value that is no
\* mapping raises TypeError.
ValidateOutput ==
    /\ pc = "validate"
    /\ validation' =
          IF response_json.isdict
          THEN AnalysisResult(response_json.obj)
          ELSE [ok |-> FALSE, exc |-> "TypeError", result |-> <<>>,
                errors |-> <<>>]
    /\ pc' = "validated"
    /\ UNCHANGED <<genCalls, response_text, response_json, agentOutcome,
                   httpResponse>>
    /\ UNCHANGED <<chunkVars, retrieveVars, storeVars, qaVars,
                 singletonVars>>

\* The try / except ValidationError / return of analyze_document.
AgentFinish ==
    /\ pc = "validated"
    /\ agentOutcome' =
          IF validation.ok THEN Returned(validation.result[1])
          ELSE IF IsInstance(validation.exc, "ValidationError")
               THEN Raised(ConstructValidationError)
          ELSE Raised(validation.exc)
    /\ pc' = "agent_done"
    /\ UNCHANGED <<genCalls, response_text, response_json, validation,
                   httpResponse>>
    /\ UNCHANGED <<chunkVars, retrieveVars, storeVars, qaVars,
                 singletonVars>>

\* Mutant: the handlers without the final `except Exception`.
RouteResponseWithoutCatchAll(outcome) ==
    IF outcome.kind = "returned"
    THEN [sent |-> TRUE, success |-> TRUE, result |-> outcome.result,
          error |-> ""]
    ELSE IF IsInstance(outcome.exc, "ValidationError")
    THEN [sent |-> TRUE, success |-> FALSE, result |-> <<>>,
          error |-> "AI output validation failed"]
    ELSE IF IsInstance(outcome.exc, "ValueError")
    THEN [sent |-> TRUE, success |-> FALSE, result |-> <<>>,
          error |-> "Failed to parse AI response"]
    ELSE NoHttpResponse

\* The handlers of routes.analyze_document, tried in order.
RouteResponse(outcome) ==
    IF outcome.kind = "returned"
    THEN [sent |-> TRUE, success |-> TRUE, result |-> outcome.result,
          error |-> ""]
    ELSE IF IsInstance(outcome.exc, "ValidationError")
    THEN [sent |-> TRUE, success |-> FALSE, result |-> <<>>,
          error |-> "AI output validation failed"]
    ELSE IF IsInstance(outcome.exc, "ValueError")
    THEN [sent |-> TRUE, success |-> FALSE, result |-> <<>>,
          error |-> "Failed to parse AI response"]
    ELSE [sent |-> TRUE, success |-> FALSE, result |-> <<>>,
          error |-> "Analysis failed"]

RouteRespond ==
    /\ pc = "agent_done"
    /\ httpResponse' = RouteResponse(agentOutcome)
    /\ pc' = "responded"
    /\ UNCHANGED <<genCalls, response_text, response_json, validation,
                   agentOutcome>>
    /\ UNCHANGED <<chunkVars, retrieveVars, storeVars, qaVars,
                 singletonVars>>

\* A consumer of the response assigns an attribute of the AnalysisResult it
\* received: the class sets no Config (frozen / allow_mutation /
\* validate_assignment), so BaseModel.__setattr__ stores the value as given.
ConsumerSetAttr ==
    /\ pc = "responded"
    /\ httpResponse.result # <<>>
    /\ LET r == httpResponse.result[1]
       IN  \E r2 \in {[r EXCEPT !.summary = min_length - 1],
                      [r EXCEPT !.completeness_status = "complete"],
                      [r EXCEPT !.missing_points = <<"p">>],
                      [r EXCEPT !.evidence = <<>>],
                      [r EXCEPT !.confidence = le + 1]} :
              httpResponse' = [httpResponse EXCEPT !.result = <<r2>>]
    /\ UNCHANGED <<pc, genCalls, response_text, response_json, validation,
                   agentOutcome>>
    /\ UNCHANGED <<chunkVars, retrieveVars, storeVars, qaVars,
                 singletonVars>>


(***************************************************************************)
(* VectorDBService._chunk_text                                             *)
(* A text is a sequence of characters; Python's slice, rfind and strip are *)
(* modelled with their semantics for negative and out-of-range indices.    *)
(***************************************************************************)
Alphabet == {"a", ".", " "}
Whitespace == {" ", "\n", "\t", "\r"}
Texts == SeqsUpTo(Alphabet, MaxTextLen)
ChunkSizes == (MaxChunkSize - 1)..MaxChunkSize
SmallOverlaps == 0..1

\* for char in ['. ', '.\n', '! ', '!\n', '? ', '?\n']
Terminators == << <<".", " ">>, <<".", "\n">>, <<"!", " ">>, <<"!", "\n">>,
                  <<"?", " ">>, <<"?", "\n">> >>

\* s[i:j]
PySlice(s, i, j) ==
    LET n == Len(s)
        lo == IF i < 0 THEN Max(n + i, 0) ELSE Min(i, n)
        hi == IF j < 0 THEN Max(n + j, 0) ELSE Min(j, n)
    IN  IF lo >= hi THEN <<>> ELSE SubSeq(s, lo + 1, hi)

\* s.rfind(pat): the highest 0-based index where pat begins, or -1
RFind(s, pat) ==
    LET hits == {i \in 0..(Len(s) - Len(pat)) :
                    SubSeq(s, i + 1, i + Len(pat)) = pat}
    IN  IF hits = {} THEN -1
        ELSE CHOOSE i \in hits : \A k \in hits : k <= i

\* s.strip()
Strip(s) ==
    LET keep == {i \in 1..Len(s) : s[i] \notin Whitespace}
    IN  IF keep = {} THEN <<>>
        ELSE SubSeq(s, CHOOSE i \in keep : \A k \in keep : i <= k,
                       CHOOSE i \in keep : \A k \in keep : k <= i)

\* Mutant: a terminator is taken wherever it is found in the window.
RECURSIVE SentenceEndAnywhere(_, _, _, _, _)
SentenceEndAnywhere(t, s, e, size, k) ==
    IF k > Len(Terminators) THEN e
    ELSE LET last_sentence == RFind(PySlice(t, s, e), Terminators[k])
         IN  IF last_sentence >= 0
             THEN s + last_sentence + Len(Terminators[k])
             ELSE SentenceEndAnywhere(t, s, e, size, k + 1)

\* The for loop over the terminators from index k on: the first terminator
\* whose last occurrence in the window lies beyond half of chunk_size moves
\* the end behind it; without one the end stays.
RECURSIVE SentenceEnd(_, _, _, _, _)
SentenceEnd(t, s, e, size, k) ==
    IF k > Len(Terminators) THEN e
    ELSE LET last_sentence == RFind(PySlice(t, s, e), Terminators[k])
         IN  IF 2 * last_sentence > size
             THEN s + last_sentence + Len(Terminators[k])
             ELSE SentenceEnd(t, s, e, size, k + 1)

\* end of the window that starts at s
WindowEnd(t, s, size) ==
    LET e == s + size
    IN  IF e < Len(t) THEN SentenceEnd(t, s, e, size, 1) ELSE e

\* Mutant: the early return takes texts shorter than chunk_size only.
ShortTextStrict(t, size) == Len(t) < size

\* if len(text) <= chunk_size
ShortText(t, size) == Len(t) <= size

\* Mutant: every chunk is appended, empty or not.
KeepChunkAlways(chunk) == TRUE

\* if chunk
KeepChunk(chunk) == chunk # <<>>

\* Mutant: the overlap is not taken off.
NextStartWithoutOverlap(end, ov) == end

\* Mutant: the overlap is added instead of taken off.
NextStartGap(end, ov) == end + ov

\* start = end - overlap
NextStart(end, ov) == end - ov

\* Mutant: the list of chunks lives on from one call to the next.
FreshChunksKept(previous) == previous

\* chunks = []
FreshChunks(previous) == <<>>

\* start = 0
FreshStart(previous) == 0

NoFirstResult == [returned |-> FALSE, chunks |-> <<>>]

ChunkIdle ==
    /\ first_result = NoFirstResult
    /\ text = <<>>
    /\ chunk_size = 1
    /\ overlap = 0
    /\ start = 0
    /\ chunks = <<>>
    /\ iterations = 0
    /\ spans = <<>>
    /\ cpc = "idle"

\* _chunk_text is entered: the early return, or the loop is set up.
ChunkCall ==
    /\ cpc = "call"
    /\ IF ShortText(text, chunk_size)
       THEN /\ chunks' = <<text>>
            /\ spans' = <<[s |-> 0, e |-> Len(text), kept |-> TRUE]>>
            /\ cpc' = "done"
       ELSE /\ chunks' = FreshChunks(chunks)
            /\ spans' = <<>>
            /\ cpc' = "loop"
    /\ start' = FreshStart(start)
    /\ UNCHANGED <<text, chunk_size, overlap, iterations, first_result>>
    /\ UNCHANGED <<analyzeVars, retrieveVars, storeVars, qaVars,
                 singletonVars>>

\* One iteration of the while loop.
ChunkStep ==
    /\ cpc = "loop"
    /\ start < Len(text)
    /\ iterations < MaxIterations
    /\ LET end == WindowEnd(text, start, chunk_size)
           chunk == Strip(PySlice(text, start, end))
       IN  /\ chunks' = IF KeepChunk(chunk) THEN Append(chunks, chunk)
                                          ELSE chunks
           /\ spans' = Append(spans, [s |-> start, e |-> end,
                                      kept |-> KeepChunk(chunk)])
           /\ start' = NextStart(end, overlap)
    /\ iterations' = iterations + 1
    /\ UNCHANGED <<text, chunk_size, overlap, cpc, first_result>>
    /\ UNCHANGED <<analyzeVars, retrieveVars, storeVars, qaVars,
                 singletonVars>>

\* The loop condition fails: return chunks.
ChunkReturn ==
    /\ cpc = "loop"
    /\ ~(start < Len(text))
    /\ cpc' = "done"
    /\ UNCHANGED <<text, chunk_size, overlap, start, chunks, iterations,
                   spans, first_result>>
    /\ UNCHANGED <<analyzeVars, retrieveVars, storeVars, qaVars,
                 singletonVars>>

\* _chunk_text has returned and is called once more with the same
\* arguments; what the first call returned is kept for comparison.
ChunkAgain ==
    /\ cpc = "done"
    /\ ~first_result.returned
    /\ first_result' = [returned |-> TRUE, chunks |-> chunks]
    /\ iterations' = 0
    /\ cpc' = "call"
    /\ UNCHANGED <<text, chunk_size, overlap, start, chunks, spans>>
    /\ UNCHANGED <<analyzeVars, retrieveVars, storeVars, qaVars,
                 singletonVars>>

(***************************************************************************)
(* The service accessors.  Each keeps its instance in a module variable    *)
(* that starts as None; a thread that calls the accessor tests the         *)
(* variable, constructs and assigns if it found None, and returns the      *)
(* value of the variable.  Other threads may run between these steps.      *)
(***************************************************************************)
Accessors == {"get_embedding_service", "get_gemini_service",
              "get_vector_db_service", "get_document_analysis_agent",
              "get_qa_agent"}
Threads == {"t1", "t2"}
NoInstance == 0
ThreadIdle == [at |-> "idle", accessor |-> ""]

SingletonIdle ==
    /\ instance = [a \in Accessors |-> NoInstance]
    /\ constructed = [a \in Accessors |-> 0]
    /\ handed_out = [a \in Accessors |-> {}]
    /\ tpc = [t \in Threads |-> ThreadIdle]

\* A thread calls an accessor.
AccessorCall(t, a) ==
    /\ tpc[t] = ThreadIdle
    /\ tpc' = [tpc EXCEPT ![t] = [at |-> "test", accessor |-> a]]
    /\ UNCHANGED <<instance, constructed, handed_out>>
    /\ UNCHANGED <<analyzeVars, chunkVars, retrieveVars, storeVars, qaVars>>

\* if _instance is None
AccessorTest(t) ==
    /\ tpc[t].at = "test"
    /\ tpc' = [tpc EXCEPT ![t].at =
                  IF instance[tpc[t].accessor] = NoInstance
                  THEN "construct" ELSE "return"]
    /\ UNCHANGED <<instance, constructed, handed_out>>
    /\ UNCHANGED <<analyzeVars, chunkVars, retrieveVars, storeVars, qaVars>>

\* _instance = Service(): a new instance is constructed and assigned.
AccessorConstruct(t) ==
    /\ tpc[t].at = "construct"
    /\ LET a == tpc[t].accessor
       IN  /\ constructed' = [constructed EXCEPT ![a] = @ + 1]
           /\ instance' = [instance EXCEPT ![a] = constructed[a] + 1]
    /\ tpc' = [tpc EXCEPT ![t].at = "return"]
    /\ UNCHANGED handed_out
    /\ UNCHANGED <<analyzeVars, chunkVars, retrieveVars, storeVars, qaVars>>

\* return _instance
AccessorReturn(t) ==
    /\ tpc[t].at = "return"
    /\ LET a == tpc[t].accessor
       IN  handed_out' = [handed_out EXCEPT ![a] = @ \cup {instance[a]}]
    /\ tpc' = [tpc EXCEPT ![t] = ThreadIdle]
    /\ UNCHANGED <<instance, constructed>>
    /\ UNCHANGED <<analyzeVars, chunkVars, retrieveVars, storeVars, qaVars>>



(***************************************************************************)
(* EmbeddingService: cosine similarity and guideline retrieval.            *)
(* An embedding is a vector of integers.  A similarity is kept exactly as  *)
(* [num, den2], standing for num / sqrt(den2), or as nan for 0.0 / 0.0     *)
(* (a numpy division by zero yields nan with a warning; it does not        *)
(* raise).                                                                 *)
(***************************************************************************)
Vectors == {<<0, 0>>, <<1, 0>>, <<2, 0>>, <<-1, 0>>, <<0, 1>>, <<1, 1>>}
TopKs == (0 - MaxNegTopK)..MaxTopK

RECURSIVE DotFrom(_, _, _)
DotFrom(a, b, i) ==
    IF i > Len(a) THEN 0 ELSE a[i] * b[i] + DotFrom(a, b, i + 1)

\* np.dot(vec1, vec2)
Dot(a, b) == DotFrom(a, b, 1)

\* np.linalg.norm(vec) squared
NormSq(a) == Dot(a, a)

Sim(n, d2) == [nan |-> FALSE, num |-> n, den2 |-> d2]
SimZero == Sim(0, 1)
SimNaN == [nan |-> TRUE, num |-> 0, den2 |-> 1]

\* dot_product / (norm1 * norm2)
Quotient(dot, nsq1, nsq2) ==
    IF nsq1 * nsq2 = 0 THEN SimNaN ELSE Sim(dot, nsq1 * nsq2)

\* Mutant: the division is not guarded.
cosine_similarity_unguarded(vec1, vec2) ==
    Quotient(Dot(vec1, vec2), NormSq(vec1), NormSq(vec2))

\* _cosine_similarity
cosine_similarity(vec1, vec2) ==
    IF NormSq(vec1) = 0 \/ NormSq(vec2) = 0
    THEN SimZero
    ELSE Quotient(Dot(vec1, vec2), NormSq(vec1), NormSq(vec2))

\* x < y for two similarities: the signed squares are compared.
SignedSquare(x) == IF x.num < 0 THEN 0 - x.num * x.num ELSE x.num * x.num
SimLess(x, y) ==
    /\ ~x.nan /\ ~y.nan
    /\ SignedSquare(x) * y.den2 < SignedSquare(y) * x.den2
SimEqual(x, y) == ~x.nan /\ ~y.nan /\ ~SimLess(x, y) /\ ~SimLess(y, x)

\* Mutant: an element goes in front of the elements equal to it.
RECURSIVE InsertDescendingBeforeTies(_, _)
InsertDescendingBeforeTies(sorted, x) ==
    IF sorted = <<>> THEN <<x>>
    ELSE IF ~SimLess(x.sim, Head(sorted).sim) THEN <<x>> \o sorted
    ELSE <<Head(sorted)>> \o InsertDescendingBeforeTies(Tail(sorted), x)

\* One element put into a list sorted by descending key: behind every
\* element that is not smaller, as a stable sort does.
RECURSIVE InsertDescending(_, _)
InsertDescending(sorted, x) ==
    IF sorted = <<>> THEN <<x>>
    ELSE IF SimLess(Head(sorted).sim, x.sim) THEN <<x>> \o sorted
    ELSE <<Head(sorted)>> \o InsertDescending(Tail(sorted), x)

RECURSIVE SortFrom(_, _, _)
SortFrom(l, i, acc) ==
    IF i > Len(l) THEN acc
    ELSE SortFrom(l, i + 1, InsertDescending(acc, l[i]))

\* similarities.sort(key=lambda x: x[1], reverse=True)
SortDescending(l) == SortFrom(l, 1, <<>>)

\* similarities[:top_k]
TopSlice(l, k) == PySlice(l, 0, k)

RetrieveIdle ==
    /\ guideline_embeddings = <<>>
    /\ top_k = 0
    /\ query_embedding = <<0, 0>>
    /\ similarities = <<>>
    /\ retrieved = <<>>
    /\ rpc = "idle"

\* query_embedding = self._embed_texts([query])[0]
EmbedQuery ==
    /\ rpc = "call"
    /\ \E q \in Vectors : query_embedding' = q
    /\ rpc' = "scoring"
    /\ UNCHANGED <<guideline_embeddings, top_k, similarities, retrieved>>
    /\ UNCHANGED <<analyzeVars, chunkVars, storeVars, qaVars,
                 singletonVars>>

\* One iteration of the loop over enumerate(self.guideline_embeddings).
ScoreGuideline ==
    /\ rpc = "scoring"
    /\ Len(similarities) < Len(guideline_embeddings)
    /\ LET i == Len(similarities)
           similarity == cosine_similarity(query_embedding,
                                           guideline_embeddings[i + 1])
       IN  similarities' = Append(similarities, [idx |-> i, sim |-> similarity])
    /\ UNCHANGED <<guideline_embeddings, top_k, query_embedding, retrieved,
                   rpc>>
    /\ UNCHANGED <<analyzeVars, chunkVars, storeVars, qaVars,
                 singletonVars>>

\* After the loop: sort in place, slice, return the guidelines chosen.
SortAndSlice ==
    /\ rpc = "scoring"
    /\ Len(similarities) = Len(guideline_embeddings)
    /\ similarities' = SortDescending(similarities)
    /\ retrieved' = LET top == TopSlice(similarities', top_k)
                    IN  [i \in 1..Len(top) |-> top[i].idx]
    /\ rpc' = "done"
    /\ UNCHANGED <<guideline_embeddings, top_k, query_embedding>>
    /\ UNCHANGED <<analyzeVars, chunkVars, storeVars, qaVars,
                 singletonVars>>



(***************************************************************************)
(* VectorDBService and QAAgent.  A stored chunk is known by its document   *)
(* and its chunk_index; its text is not looked into.  The collection       *)
(* measures distance as the squared L2 distance (the default space of a    *)
(* collection created without "hnsw:space").                               *)
(***************************************************************************)
DocIds == {"d1", "d2"}
None == "None"
DocumentIdArgs == DocIds \cup {None, ""}
StoreVectors == {<<0, 0>>, <<1, 0>>, <<1, 1>>}
QueryVectors == {<<0, 0>>, <<1, 1>>}

NoDelete == [called |-> FALSE]

StoreIdle ==
    /\ collection = {}
    /\ used_ids = {}
    /\ delete_call = NoDelete
    /\ deleted_ids = {}

NoQAOutcome == [kind |-> "none"]
QAIdle ==
    /\ qa_top_k = 0
    /\ qa_document_id = None
    /\ qa_query_embedding = <<0, 0>>
    /\ search_results = <<>>
    /\ context_parts = <<>>
    /\ sources = <<>>
    /\ qaCalls = 0
    /\ qaOutcome = NoQAOutcome
    /\ qpc = "idle"

RECURSIVE SqDistFrom(_, _, _)
SqDistFrom(a, b, i) ==
    IF i > Len(a) THEN 0
    ELSE (a[i] - b[i]) * (a[i] - b[i]) + SqDistFrom(a, b, i + 1)
SqDist(a, b) == SqDistFrom(a, b, 1)

\* Mutant: the chunks are numbered from 1.
ChunkRecordsNumberedFromOne(document_id, embeddings) ==
    {[document_id |-> document_id, chunk_index |-> i,
      total_chunks |-> Len(embeddings), embedding |-> embeddings[i]] :
        i \in 1..Len(embeddings)}

\* The chunks add_document stores for one document: ids, metadata and
\* embeddings of chunks 0..len(chunks)-1.
ChunkRecords(document_id, embeddings) ==
    {[document_id |-> document_id, chunk_index |-> i - 1,
      total_chunks |-> Len(embeddings), embedding |-> embeddings[i]] :
        i \in 1..Len(embeddings)}

\* where_filter = {"document_id": document_id} if document_id else None
where_filter(document_id) ==
    IF document_id = None \/ document_id = "" THEN None ELSE document_id

\* The chunks a where clause lets through.
Matching(coll, where) ==
    {c \in coll : where = None \/ c.document_id = where}

\* Every way of listing the n nearest of the candidates by increasing
\* distance; candidates at the same distance come in either order.
RECURSIVE Nearest(_, _, _)
Nearest(cands, q, n) ==
    IF n <= 0 \/ cands = {} THEN {<<>>}
    ELSE LET closest == {c \in cands : \A o \in cands :
                            SqDist(c.embedding, q) <= SqDist(o.embedding, q)}
         IN  UNION {{<<c>> \o r : r \in Nearest(cands \ {c}, q, n - 1)} :
                        c \in closest}

\* collection.query validates n_results: a number that is not positive
\* is refused with an exception.
query_accepts_n_results(n_results) == n_results > 0

\* collection.query(query_embeddings=[q], n_results=n, where=where): the
\* results it may give when it accepts n_results.
query(coll, q, n_results, where) ==
    Nearest(Matching(coll, where), q, n_results)

\* formatted_results: one entry per id returned, in the order returned.
FormatResults(results, q) ==
    [i \in 1..Len(results) |->
        [document_id |-> results[i].document_id,
         chunk_index |-> results[i].chunk_index,
         total_chunks |-> results[i].total_chunks,
         distance |-> SqDist(results[i].embedding, q)]]

\* routes.upload_document: a fresh uuid4 id, then add_document.
AddDocument ==
    /\ qpc = "idle"
    /\ delete_call = NoDelete
    /\ \E d \in DocIds \ used_ids :
       \E embeddings \in SeqsUpTo(StoreVectors, MaxChunksPerDoc) \ {<<>>} :
          /\ collection' = collection \cup ChunkRecords(d, embeddings)
          /\ used_ids' = used_ids \cup {d}
    /\ UNCHANGED <<delete_call, deleted_ids>>
    /\ UNCHANGED <<analyzeVars, chunkVars, retrieveVars, qaVars,
                 singletonVars>>

\* Mutant: the whole collection is emptied.
delete_everything(coll, found) == {}

\* self.collection.delete(ids=results['ids'])
delete(coll, found) == coll \ found

\* vector_db.delete_document(document_id), called by the route DELETE
\* /documents/{document_id}: the chunks of the document are looked up and,
\* if there are any, deleted; the call returns whether there were any.
DeleteDocument ==
    /\ qpc = "idle"
    /\ delete_call = NoDelete
    /\ \E d \in DocIds :
          LET results == Matching(collection, d)
          IN  /\ collection' = IF results # {} THEN delete(collection, results)
                                               ELSE collection
              /\ delete_call' = [called |-> TRUE, document_id |-> d,
                                 deleted |-> results # {},
                                 before |-> collection,
                                 again |-> d \in deleted_ids]
              /\ deleted_ids' = deleted_ids \cup ({d} \cap used_ids)
    /\ UNCHANGED used_ids
    /\ UNCHANGED <<analyzeVars, chunkVars, retrieveVars, qaVars,
                 singletonVars>>

\* The route answers {"success": deleted, ...} and the request is over.
RouteDeleteRespond ==
    /\ delete_call # NoDelete
    /\ delete_call' = NoDelete
    /\ UNCHANGED <<collection, used_ids, deleted_ids>>
    /\ UNCHANGED <<analyzeVars, chunkVars, retrieveVars, qaVars,
                 singletonVars>>

\* answer_question(question, document_id, top_k) is called.
Ask ==
    /\ qpc = "idle"
    /\ delete_call = NoDelete
    /\ qa_top_k' \in TopKs
    /\ qa_document_id' \in DocumentIdArgs
    /\ qpc' = "search"
    /\ UNCHANGED <<qa_query_embedding, search_results, context_parts, sources,
                   qaCalls, qaOutcome>>
    /\ UNCHANGED <<analyzeVars, chunkVars, retrieveVars, storeVars,
                 singletonVars>>

\* self.vector_db.search(query, top_k, document_id): the query is embedded
\* and the collection queried; an exception of the query leaves
\* answer_question.
Search ==
    /\ qpc = "search"
    /\ \E q \in QueryVectors :
          /\ qa_query_embedding' = q
          /\ IF query_accepts_n_results(qa_top_k)
             THEN /\ \E results \in query(collection, q, qa_top_k,
                                          where_filter(qa_document_id)) :
                        search_results' = FormatResults(results, q)
                  /\ qpc' = "searched"
                  /\ UNCHANGED qaOutcome
             ELSE /\ qaOutcome' = [kind |-> "raised", by |-> "search"]
                  /\ qpc' = "done"
                  /\ UNCHANGED search_results
    /\ UNCHANGED <<qa_top_k, qa_document_id, context_parts, sources, qaCalls>>
    /\ UNCHANGED <<analyzeVars, chunkVars, retrieveVars, storeVars,
                 singletonVars>>

NoDocumentsAnswer ==
    "I don't have any documents to answer this question. Please upload documents first."

\* Mutant: the search results are never taken as empty.
NoResultsNever(results) == FALSE

\* not search_results
NoResults(results) == results = <<>>

\* if not search_results: return the fixed answer
ShortCircuit ==
    /\ qpc = "searched"
    /\ NoResults(search_results)
    /\ qaOutcome' = [kind |-> "returned", answer |-> NoDocumentsAnswer,
                     sources |-> <<>>]
    /\ qpc' = "done"
    /\ UNCHANGED <<qa_top_k, qa_document_id, qa_query_embedding,
                   search_results, context_parts, sources, qaCalls>>
    /\ UNCHANGED <<analyzeVars, chunkVars, retrieveVars, storeVars,
                 singletonVars>>

\* The loop over enumerate(search_results, 1) and the prompt built from it.
BuildContext ==
    /\ qpc = "searched"
    /\ ~NoResults(search_results)
    /\ context_parts' =
          [i \in 1..Len(search_results) |->
              [label |-> i,
               document_id |-> search_results[i].document_id,
               chunk_index |-> search_results[i].chunk_index]]
    /\ sources' =
          [i \in 1..Len(search_results) |->
              [source_number |-> i,
               document_id |-> search_results[i].document_id,
               chunk_index |-> search_results[i].chunk_index,
               total_chunks |-> search_results[i].total_chunks]]
    /\ qpc' = "generate"
    /\ UNCHANGED <<qa_top_k, qa_document_id, qa_query_embedding,
                   search_results, qaCalls, qaOutcome>>
    /\ UNCHANGED <<analyzeVars, chunkVars, retrieveVars, storeVars,
                 singletonVars>>

\* answer = self.llm_service.generate_response(prompt), which returns the
\* answer or raises; an exception is raised again as ValueError.
Generate ==
    /\ qpc = "generate"
    /\ qaCalls' = qaCalls + 1
    /\ \E ok \in BOOLEAN :
          qaOutcome' = IF ok
                       THEN [kind |-> "returned", answer |-> "generated",
                             sources |-> sources]
                       ELSE [kind |-> "raised", by |-> "ValueError"]
    /\ qpc' = "done"
    /\ UNCHANGED <<qa_top_k, qa_document_id, qa_query_embedding,
                   search_results, context_parts, sources>>
    /\ UNCHANGED <<analyzeVars, chunkVars, retrieveVars, storeVars,
                 singletonVars>>

\* retrieve_relevant_guidelines(query, top_k) on a service whose guidelines
\* were embedded at construction
InitRetrieve ==
    /\ SingletonIdle
    /\ AnalyzeIdle
    /\ ChunkIdle
    /\ StoreIdle
    /\ QAIdle
    /\ guideline_embeddings \in [1..NumGuidelines -> Vectors]
    /\ top_k \in TopKs
    /\ query_embedding = <<0, 0>>
    /\ similarities = <<>>
    /\ retrieved = <<>>
    /\ rpc = "call"

NextRetrieve == EmbedQuery \/ ScoreGuideline \/ SortAndSlice

SpecRetrieve == InitRetrieve /\ [][NextRetrieve]_vars

\* LangChainQAAgent.answer_question_custom, on a store of the same shape.
\* The positions are those of the chain (retriever | format_docs, prompt,
\* llm) and of the second retrieval made for the citations.

\* The chunk a search result or a context part stands for.
ChunkRef(x) == [document_id |-> x.document_id, chunk_index |-> x.chunk_index]
ChunkRefs(xs) == [i \in 1..Len(xs) |-> ChunkRef(xs[i])]

\* format_docs: the documents retrieved, labelled [Source i].
FormatDocs(results) ==
    [i \in 1..Len(results) |->
        [label |-> i,
         document_id |-> results[i].document_id,
         chunk_index |-> results[i].chunk_index]]

LcAsk ==
    /\ qpc = "idle"
    /\ delete_call = NoDelete
    /\ qa_top_k' \in TopKs
    /\ qa_document_id' \in DocumentIdArgs
    /\ qpc' = "lc_retrieve"
    /\ UNCHANGED <<qa_query_embedding, search_results, context_parts, sources,
                   qaCalls, qaOutcome>>
    /\ UNCHANGED <<analyzeVars, chunkVars, retrieveVars, storeVars,
                   singletonVars>>

\* chain.invoke, first part: the retriever is run and its documents are
\* formatted into the context of the prompt.
LcRetrieve ==
    /\ qpc = "lc_retrieve"
    /\ \E q \in QueryVectors :
          /\ qa_query_embedding' = q
          /\ IF query_accepts_n_results(qa_top_k)
             THEN /\ \E results \in query(collection, q, qa_top_k,
                                          where_filter(qa_document_id)) :
                        context_parts' = FormatDocs(results)
                  /\ qpc' = "lc_generate"
                  /\ UNCHANGED qaOutcome
             ELSE /\ qaOutcome' = [kind |-> "raised", by |-> "search"]
                  /\ qpc' = "done"
                  /\ UNCHANGED context_parts
    /\ UNCHANGED <<qa_top_k, qa_document_id, search_results, sources, qaCalls>>
    /\ UNCHANGED <<analyzeVars, chunkVars, retrieveVars, storeVars,
                   singletonVars>>

\* chain.invoke, second part: the prompt is given to the llm.
LcGenerate ==
    /\ qpc = "lc_generate"
    /\ qaCalls' = qaCalls + 1
    /\ \E ok \in BOOLEAN :
          IF ok
          THEN qpc' = "lc_generated" /\ UNCHANGED qaOutcome
          ELSE /\ qaOutcome' = [kind |-> "raised", by |-> "Exception"]
               /\ qpc' = "done"
    /\ UNCHANGED <<qa_top_k, qa_document_id, qa_query_embedding,
                   search_results, context_parts, sources>>
    /\ UNCHANGED <<analyzeVars, chunkVars, retrieveVars, storeVars,
                   singletonVars>>

\* While the question is being answered, another worker on the same
\* persistent collection stores a document or deletes one.  The store is
\* read again only by the second retrieval, so a change made at any moment
\* before it shows there.
StoreChangesMeanwhile ==
    /\ qpc = "lc_generated"
    /\ \/ \E d \in DocIds \ used_ids :
          \E embeddings \in SeqsUpTo(StoreVectors, MaxChunksPerDoc) \ {<<>>} :
             /\ collection' = collection \cup ChunkRecords(d, embeddings)
             /\ used_ids' = used_ids \cup {d}
       \/ \E d \in DocIds :
             /\ Matching(collection, d) # {}
             /\ collection' = delete(collection, Matching(collection, d))
             /\ UNCHANGED used_ids
    /\ qpc' = "lc_sources"
    /\ UNCHANGED <<delete_call, deleted_ids>>
    /\ UNCHANGED <<qa_top_k, qa_document_id, qa_query_embedding,
                   search_results, context_parts, sources, qaCalls, qaOutcome>>
    /\ UNCHANGED <<analyzeVars, chunkVars, retrieveVars, singletonVars>>

\* source_docs = retriever.invoke(question): the retriever is run a second
\* time and the citations are numbered from what it returns now.  On a
\* collection that has not changed the same query gives the same documents.
LcSources ==
    /\ qpc \in {"lc_generated", "lc_sources"}
    /\ \E results \in query(collection, qa_query_embedding, qa_top_k,
                            where_filter(qa_document_id)) :
          /\ qpc = "lc_generated" => ChunkRefs(results) = ChunkRefs(context_parts)
          /\ search_results' = FormatResults(results, qa_query_embedding)
          /\ sources' =
                [i \in 1..Len(results) |->
                    [source_number |-> i,
                     document_id |-> results[i].document_id,
                     chunk_index |-> results[i].chunk_index,
                     total_chunks |-> results[i].total_chunks]]
          /\ qaOutcome' = [kind |-> "returned", answer |-> "generated",
                           sources |-> sources']
    /\ qpc' = "done"
    /\ UNCHANGED <<qa_top_k, qa_document_id, qa_query_embedding,
                   context_parts, qaCalls>>
    /\ UNCHANGED <<analyzeVars, chunkVars, retrieveVars, storeVars,
                   singletonVars>>

\* Threads call the accessors, any number of times.
InitSingleton ==
    /\ SingletonIdle
    /\ AnalyzeIdle
    /\ ChunkIdle
    /\ RetrieveIdle
    /\ StoreIdle
    /\ QAIdle

NextSingleton ==
    \E t \in Threads :
        \/ \E a \in Accessors : AccessorCall(t, a)
        \/ AccessorTest(t)
        \/ AccessorConstruct(t)
        \/ AccessorReturn(t)

SpecSingleton == InitSingleton /\ [][NextSingleton]_vars

\* Documents are uploaded and deleted, then one question is asked.
InitQA ==
    /\ SingletonIdle
    /\ AnalyzeIdle
    /\ ChunkIdle
    /\ RetrieveIdle
    /\ StoreIdle
    /\ QAIdle

NextQA ==
    \/ AddDocument
    \/ DeleteDocument
    \/ RouteDeleteRespond
    \/ Ask
    \/ Search
    \/ ShortCircuit
    \/ BuildContext
    \/ Generate

SpecQA == InitQA /\ [][NextQA]_vars

\* The same store, asked through the LangChain agent while another worker
\* may change it.
NextLangChainQA ==
    \/ AddDocument
    \/ DeleteDocument
    \/ RouteDeleteRespond
    \/ LcAsk
    \/ LcRetrieve
    \/ LcGenerate
    \/ StoreChangesMeanwhile
    \/ LcSources

SpecLangChainQA == InitQA /\ [][NextLangChainQA]_vars


(***************************************************************************)
(* Specifications                                                          *)
(***************************************************************************)
InitAnalyze ==
    /\ AnalyzeIdle /\ ChunkIdle /\ RetrieveIdle /\ StoreIdle /\ QAIdle
    /\ SingletonIdle

NextAnalyze ==
    \/ Request
    \/ RetrieveGuidelines
    \/ GenerateResponse
    \/ ExtractJson
    \/ ValidateOutput
    \/ AgentFinish
    \/ RouteRespond

SpecAnalyze == InitAnalyze /\ [][NextAnalyze]_vars

NextConsumer == NextAnalyze \/ ConsumerSetAttr

SpecConsumer == InitAnalyze /\ [][NextConsumer]_vars

\* _chunk_text(text, chunk_size, overlap) with chunk_size > overlap >= 0
InitChunk ==
    /\ SingletonIdle
    /\ AnalyzeIdle
    /\ RetrieveIdle
    /\ StoreIdle
    /\ QAIdle
    /\ text \in Texts
    /\ chunk_size \in ChunkSizes
    /\ overlap \in 0..(chunk_size - 1)
    /\ start = 0
    /\ chunks = <<>>
    /\ iterations = 0
    /\ spans = <<>>
    /\ cpc = "call"
    /\ first_result = NoFirstResult

NextChunk == ChunkCall \/ ChunkStep \/ ChunkReturn

SpecChunk == InitChunk /\ [][NextChunk]_vars

\* Documents of full size: a run of one letter of n characters, with a
\* two-character mark put at the 0-based position p, or blank from the
\* position b on.
Fill == "a"
Marks == {<<".", " ">>, <<"?", "\n">>, <<" ", " ">>}
Marked(n, p, mark) ==
    [i \in 1..n |-> IF i = p + 1 THEN mark[1]
                    ELSE IF i = p + 2 THEN mark[2] ELSE Fill]
BlankFrom(n, b) == [i \in 1..n |-> IF i > b THEN " " ELSE Fill]

\* Short documents with two marks, the second written over the first.
TwiceMarked(n) ==
    {[i \in 1..n |-> IF i = p2 + 1 THEN m2[1]
                     ELSE IF i = p2 + 2 THEN m2[2]
                     ELSE Marked(n, p1, m1)[i]] :
        p1 \in 0..(n - 2), p2 \in 0..(n - 2), m1 \in Marks, m2 \in Marks}

\* Where the marks are put: every 50th position and the positions next to
\* the middle and to the end of the first window.
MarkPositions(n, size) ==
    {50 * k : k \in 0..((n \div 50) - 1)}
        \cup {size \div 2, (size \div 2) + 1, size - 2, size - 1}

Documents(n, size) ==
    {Marked(n, p, mark) : p \in MarkPositions(n, size), mark \in Marks}
        \cup {BlankFrom(n, 100 * k) : k \in 1..(n \div 100)}

\* The calls _chunk_text(text, 500, 50) with documents of 1200 characters,
\* and the calls _chunk_text(text) with the defaults of the signature.
DefaultChunkSize == 1000
DefaultOverlap == 100
DocumentCalls ==
    {[text |-> t, chunk_size |-> 500, overlap |-> 50] :
        t \in Documents(1200, 500)}
    \cup
    {[text |-> t, chunk_size |-> MaxChunkSize + 1, overlap |-> ov] :
        t \in TwiceMarked(MaxChunkSize + 5), ov \in {0, 2}}
    \cup
    {[text |-> t, chunk_size |-> DefaultChunkSize,
      overlap |-> DefaultOverlap] :
        t \in {BlankFrom(50 * k, 50 * k) : k \in 20..40}
               \cup Documents(2000, DefaultChunkSize)}

InitChunkDocuments ==
    /\ SingletonIdle
    /\ AnalyzeIdle
    /\ RetrieveIdle
    /\ StoreIdle
    /\ QAIdle
    /\ \E c \in DocumentCalls :
          /\ text = c.text
          /\ chunk_size = c.chunk_size
          /\ overlap = c.overlap
    /\ start = 0
    /\ chunks = <<>>
    /\ iterations = 0
    /\ spans = <<>>
    /\ cpc = "call"
    /\ first_result = NoFirstResult

SpecChunkDocuments == InitChunkDocuments /\ [][NextChunk]_vars

\* Two calls of _chunk_text, one after the other, with the same arguments
InitChunkTwice ==
    /\ InitChunk
    /\ overlap \in SmallOverlaps

NextChunkTwice == NextChunk \/ ChunkAgain

SpecChunkTwice == InitChunkTwice /\ [][NextChunkTwice]_vars


(***************************************************************************)
(* Vocabulary of the claims about validation.  These predicates speak of   *)
(* the raw object alone, not of the validators.                            *)
(***************************************************************************)
\* AnalysisResult(**response_json) has run on a JSON object.
ValidatedObject ==
    pc \in {"validated", "agent_done", "responded"} /\ response_json.isdict

rawObj == response_json.obj

Rejected == ~validation.ok /\ validation.exc = "ValidationError"

ErrorLocs(errors) == {errors[i].loc : i \in 1..Len(errors)}

Reports(loc, type) ==
    \E i \in 1..Len(validation.errors) :
        validation.errors[i] = [loc |-> loc, type |-> type]

AllPresent == \A i \in 1..Len(FieldNames) : rawObj[FieldNames[i]].tag # "absent"
AllWellTyped == \A i \in 1..Len(FieldNames) : rawObj[FieldNames[i]].tag = "ok"

StatusInSet == rawObj.completeness_status.v \in StatusLiteral

SummaryInRange ==
    rawObj.summary.v >= min_length /\ rawObj.summary.v <= max_length
ConfidenceInRange == rawObj.confidence.v >= ge /\ rawObj.confidence.v <= le
EvidenceNonEmpty == Len(rawObj.evidence.v) >= min_items
RangesRespected == SummaryInRange /\ ConfidenceInRange /\ EvidenceNonEmpty

\* completeness_status is "complete" and missing_points is a non-empty list
Inconsistent ==
    /\ rawObj.completeness_status = Ok("complete")
    /\ rawObj.missing_points.tag = "ok"
    /\ Len(rawObj.missing_points.v) > 0

\* The fields failing each of the four checks of the specification.
StructuralFailures ==
    {FieldNames[i] : i \in {k \in 1..Len(FieldNames) :
                               rawObj[FieldNames[k]].tag # "ok"}}
RangeFailures ==
    {f \in {"summary"} : rawObj.summary.tag = "ok" /\ ~SummaryInRange} \cup
    {f \in {"confidence"} : rawObj.confidence.tag = "ok" /\ ~ConfidenceInRange}
    \cup {f \in {"evidence"} : rawObj.evidence.tag = "ok" /\ ~EvidenceNonEmpty}
EnumerationFailures ==
    {f \in {"completeness_status"} :
        rawObj.completeness_status.tag = "ok" /\ ~StatusInSet}
CrossFieldFailures == {f \in {"missing_points"} : Inconsistent}

FirstFailingCheck ==
    IF StructuralFailures # {} THEN StructuralFailures
    ELSE IF RangeFailures # {} THEN RangeFailures
    ELSE IF EnumerationFailures # {} THEN EnumerationFailures
    ELSE CrossFieldFailures

\* The fields the code refuses: missing_points may be absent.
FailingFields ==
    ((StructuralFailures \cup RangeFailures \cup EnumerationFailures
      \cup CrossFieldFailures)
     \ {f \in {"missing_points"} : rawObj.missing_points.tag = "absent"})

RECURSIVE Restrict(_, _)
Restrict(names, S) ==
    IF names = <<>> THEN <<>>
    ELSE (IF Head(names) \in S THEN <<Head(names)>> ELSE <<>>)
         \o Restrict(Tail(names), S)

ErrorLocSeq == [i \in 1..Len(validation.errors) |-> validation.errors[i].loc]

(***************************************************************************)
(* Claims                                                                  *)
(***************************************************************************)

\* C1: every AnalysisResult that analyze_document returns, and that the
\* endpoint then sends, satisfies the whole output contract: summary length
\* in [10, 500], status in the closed set, evidence non-empty, confidence in
\* [0.0, 1.0], and no missing points when the status is complete.
C1_ReturnedResultSatisfiesContract ==
    /\ agentOutcome.kind = "returned" => Contract(agentOutcome.result[1])
    /\ httpResponse.success => Contract(httpResponse.result[1])

C1_Witness ==
    /\ pc = "responded"
    /\ httpResponse.success
    /\ httpResponse.result[1].completeness_status = "complete"
    /\ rawObj.missing_points.tag = "absent"

\* C2: with chunk_size > overlap >= 0 the window start strictly increases on
\* every iteration of the chunking loop.
C2_StartStrictlyIncreases ==
    [][iterations' = iterations + 1 => start' > start]_vars

\* C3: when the generator's text parses to an object that validation
\* rejects, analyze_document raises ValidationError and the endpoint answers
\* with the error "AI output validation failed".
C3_ValidationFailureIsReported ==
    (pc = "responded" /\ ValidatedObject /\ Rejected)
        => /\ agentOutcome = Raised("ValidationError")
           /\ httpResponse.success = FALSE
           /\ httpResponse.error = "AI output validation failed"

\* C4: an object whose completeness_status is "complete" and whose
\* missing_points is a non-empty list is rejected whatever the other fields
\* hold, and the rejection reports the inconsistency on missing_points.
C4_InconsistentFieldsRejected ==
    (ValidatedObject /\ Inconsistent)
        => Rejected /\ Reports("missing_points", "value_error")

C4_Witness ==
    /\ ValidatedObject /\ Inconsistent
    /\ rawObj.summary.tag = "mistyped"
    /\ rawObj.confidence = Ok(le + 1)
    /\ Rejected

C6_AnyAbsentFieldRejected ==
    (ValidatedObject /\ ~AllPresent) => Rejected

\* C6 amended: an object lacking summary, completeness_status, evidence or
\* confidence is rejected with a missing-field reason for that field;
\* an absent missing_points is filled in with the empty list, so an object
\* lacking only missing_points is accepted when its other fields pass.
C6_RequiredFieldsAndDefault ==
    ValidatedObject
        => /\ \A f \in {"summary", "completeness_status", "evidence",
                        "confidence"} :
                 rawObj[f].tag = "absent"
                     => Rejected /\ Reports(f, "value_error.missing")
           /\ (rawObj.missing_points.tag = "absent" /\ FailingFields = {})
                 => /\ validation.ok
                    /\ validation.result[1].missing_points = <<>>

C6_Witness ==
    /\ ValidatedObject
    /\ rawObj.missing_points.tag = "absent"
    /\ rawObj.completeness_status = Ok("partial")
    /\ validation.ok
    /\ validation.result[1].missing_points = <<>>

\* C7: among objects whose fields are all present and well typed, whose
\* status is in the set and whose missing_points agree with the status,
\* validation rejects exactly those that break a range bound; summary
\* lengths 10 and 500 and confidences 0.0 and 1.0 are accepted.
C7_RangeBounds ==
    (ValidatedObject /\ AllWellTyped /\ StatusInSet /\ ~Inconsistent)
        => (Rejected <=> ~RangesRespected)

C7_Witness ==
    /\ ValidatedObject /\ AllWellTyped /\ StatusInSet /\ ~Inconsistent
    /\ rawObj.summary = Ok(max_length)
    /\ rawObj.confidence = Ok(ge)
    /\ validation.ok

\* C8: an object that passes all four checks is accepted, the accepted
\* AnalysisResult carries the values of the input, and analyze_document
\* returns that result.
C8_ValidObjectAcceptedUnchanged ==
    (ValidatedObject /\ AllWellTyped /\ RangesRespected /\ StatusInSet
        /\ ~Inconsistent)
        => /\ validation.ok
           /\ validation.result =
                 <<[summary |-> rawObj.summary.v,
                    completeness_status |-> rawObj.completeness_status.v,
                    missing_points |-> rawObj.missing_points.v,
                    evidence |-> rawObj.evidence.v,
                    confidence |-> rawObj.confidence.v]>>
           /\ pc \in {"agent_done", "responded"}
                 => agentOutcome = Returned(validation.result[1])

C8_Witness ==
    /\ pc = "agent_done"
    /\ ValidatedObject
    /\ rawObj.completeness_status = Ok("partial")
    /\ rawObj.missing_points = Ok(<<"p">>)
    /\ rawObj.confidence = Ok(le)
    /\ agentOutcome.kind = "returned"
    /\ agentOutcome.result[1].missing_points = <<"p">>

\* C9: one analyze_document call invokes the generator at most once and ends
\* in one outcome: a returned result exactly when validation accepted, a
\* raised exception after a generator error, a parse error or a rejection,
\* with no result in its place.
C9_OneCallOneOutcome ==
    /\ genCalls <= 1
    /\ pc \in {"agent_done", "responded"}
          => /\ agentOutcome.kind \in {"returned", "raised"}
             /\ agentOutcome.kind = "returned" <=> validation.ok
             /\ agentOutcome.kind = "raised" => agentOutcome.result = <<>>
    /\ pc = "responded"
          => /\ httpResponse.success <=> validation.ok
             /\ ~httpResponse.success => httpResponse.result = <<>>

C9_Witness ==
    /\ pc = "responded"
    /\ genCalls = 1
    /\ response_text.kind = "prose"
    /\ agentOutcome = Raised("ValueError")
    /\ httpResponse.result = <<>>

\* C10: after acceptance no consumer can change a field, so every
\* AnalysisResult held after acceptance is the accepted one and satisfies
\* the output contract.
C10_AcceptedResultImmutable ==
    httpResponse.result # <<>>
        => /\ httpResponse.result = validation.result
           /\ Contract(httpResponse.result[1])


(***************************************************************************)
(* Vocabulary of the claims about chunking                                 *)
(***************************************************************************)
ChunkingDone == cpc = "done"

\* the text of the window recorded as span sp
WindowText(sp) == PySlice(text, sp.s, sp.e)

KeptSpans == SelectSeq(spans, LAMBDA sp : sp.kept)

Suffix(s, n) == SubSeq(s, Len(s) - n + 1, Len(s))
Prefix(s, n) == SubSeq(s, 1, n)

Blank(chunk) == \A i \in 1..Len(chunk) : chunk[i] \in Whitespace

\* C17: a text not longer than chunk_size comes back as exactly one chunk,
\* equal to the text.
C17_ShortTextOneChunk ==
    (ChunkingDone /\ Len(text) <= chunk_size) => chunks = <<text>>

C17_Witness ==
    /\ ChunkingDone
    /\ Len(text) = chunk_size
    /\ text[1] = " "
    /\ chunks = <<text>>

\* C18 as stated: for a text of any length, no returned chunk is empty or
\* made of whitespace only.
C18_NoBlankChunk ==
    ChunkingDone => \A i \in 1..Len(chunks) : ~Blank(chunks[i])

\* C18 amended: for a text longer than chunk_size no returned chunk is
\* empty or blank, every chunk being a trimmed window and windows that trim
\* to nothing being dropped; a text not longer than chunk_size is returned
\* as it is, blank or not.
C18_NoBlankChunkOfLongText ==
    /\ Len(text) > chunk_size
          => \A i \in 1..Len(chunks) :
                 ~Blank(chunks[i]) /\ Strip(chunks[i]) = chunks[i]
    /\ (ChunkingDone /\ Len(text) <= chunk_size) => chunks = <<text>>

C18_Witness ==
    /\ ChunkingDone
    /\ Len(text) > chunk_size
    /\ Len(chunks) >= 1
    /\ \E i \in 1..Len(spans) : ~spans[i].kept

\* C19 as stated: with overlap > 0 the last overlap characters of every
\* chunk but the final one are the first overlap characters of the next.
C19_ChunksShareOverlap ==
    (ChunkingDone /\ overlap > 0)
        => \A i \in 1..(Len(chunks) - 1) :
               /\ Len(chunks[i]) >= overlap
               /\ Len(chunks[i + 1]) >= overlap
               /\ Suffix(chunks[i], overlap) = Prefix(chunks[i + 1], overlap)

\* C19 amended: every window after the first starts exactly overlap
\* characters before the end of the window before it, so two consecutive
\* windows that lie in the text and are at least overlap long share those
\* characters of the source; the chunks returned are the windows trimmed,
\* without those that trim to nothing, and need not share them.
C19_WindowsShareOverlap ==
    /\ \A i \in 1..(Len(spans) - 1) :
          /\ spans[i + 1].s = spans[i].e - overlap
          /\ (/\ spans[i].e <= Len(text)
              /\ spans[i + 1].s >= spans[i].s
              /\ spans[i + 1].e - spans[i + 1].s >= overlap
              /\ spans[i + 1].e <= Len(text))
                => Suffix(WindowText(spans[i]), overlap)
                       = Prefix(WindowText(spans[i + 1]), overlap)
    /\ Len(text) > chunk_size
          => chunks = [i \in 1..Len(KeptSpans) |->
                          Strip(WindowText(KeptSpans[i]))]

C19_Witness ==
    /\ ChunkingDone
    /\ overlap >= 2
    /\ Len(spans) >= 2
    /\ spans[1].e <= Len(text)
    /\ spans[2].e - spans[2].s >= overlap
    /\ Suffix(WindowText(spans[1]), overlap)
           = Prefix(WindowText(spans[2]), overlap)
    /\ Len(chunks) = 2
    /\ Suffix(chunks[1], overlap) # Prefix(chunks[2], overlap)

RetrieveDone == rpc = "done"

\* The similarity computed for the guideline of index idx.
SimOf(idx) ==
    similarities[CHOOSE n \in 1..Len(similarities) :
                     similarities[n].idx = idx].sim

\* C12: retrieve_relevant_guidelines with a top_k that is zero or negative
\* returns no guideline.
C12_NonPositiveTopKGivesEmpty ==
    (RetrieveDone /\ top_k <= 0) => retrieved = <<>>

\* C14: the guidelines returned are in order of non-increasing similarity,
\* and two returned guidelines of equal similarity are in the order in which
\* they stand in the corpus.
C14_DescendingAndStable ==
    RetrieveDone =>
        \A i, j \in 1..Len(retrieved) :
            i < j => /\ ~SimLess(SimOf(retrieved[i]), SimOf(retrieved[j]))
                     /\ SimEqual(SimOf(retrieved[i]), SimOf(retrieved[j]))
                           => retrieved[i] < retrieved[j]

C14_Witness ==
    /\ RetrieveDone
    /\ \E i, j, k \in 1..Len(retrieved) :
          /\ i < j /\ j < k
          /\ SimLess(SimOf(retrieved[j]), SimOf(retrieved[i]))
          /\ SimEqual(SimOf(retrieved[j]), SimOf(retrieved[k]))
          /\ retrieved[i] > retrieved[j]
          /\ guideline_embeddings[retrieved[j] + 1]
                # guideline_embeddings[retrieved[k] + 1]

\* C15: every similarity computed is a number (no division by zero took
\* place): it is exactly 0.0 when the query or the guideline embedding has
\* zero norm, and otherwise the dot product over the product of the norms,
\* which is 1.0 for a non-zero vector and itself.
C15_CosineTotalAndExact ==
    \A n \in 1..Len(similarities) :
        LET p == similarities[n]
            v == guideline_embeddings[p.idx + 1]
            q == query_embedding
        IN  /\ ~p.sim.nan
            /\ (NormSq(q) = 0 \/ NormSq(v) = 0)
                  => (p.sim.num = 0 /\ p.sim.den2 = 1)
            /\ (NormSq(q) # 0 /\ NormSq(v) # 0)
                  => /\ p.sim.num = Dot(q, v)
                     /\ p.sim.den2 = NormSq(q) * NormSq(v)
                     /\ q = v => (p.sim.num > 0
                                  /\ p.sim.num * p.sim.num = p.sim.den2)

C15_Witness ==
    /\ RetrieveDone
    /\ NormSq(query_embedding) # 0
    /\ \E a, b, c \in 1..Len(similarities) :
          /\ NormSq(guideline_embeddings[similarities[a].idx + 1]) = 0
          /\ guideline_embeddings[similarities[b].idx + 1] = query_embedding
          /\ similarities[c].sim.num < 0

(***************************************************************************)
(* Claims about search and answer_question.                                *)
(***************************************************************************)
SearchRaised == qaOutcome.kind = "raised" /\ qaOutcome.by = "search"
SearchCalled == qpc \in {"searched", "generate", "done"}
SearchReturned == SearchCalled /\ ~SearchRaised
AnswerDone == qpc = "done"

\* The stored chunks among which search is to look, given its document_id.
Candidates ==
    {c \in collection :
        qa_document_id = None \/ c.document_id = qa_document_id}

\* C11: once retrieval has returned no chunk, no generator call is made and
\* answer_question returns the fixed answer with no sources; once it has
\* returned a chunk or more, answer_question ends after exactly one
\* generator call.
C11_ShortCircuitOrOneCall ==
    SearchReturned =>
        /\ search_results = <<>>
              => /\ qaCalls = 0
                 /\ AnswerDone => qaOutcome = [kind |-> "returned",
                                               answer |-> NoDocumentsAnswer,
                                               sources |-> <<>>]
        /\ search_results # <<>>
              => /\ qaCalls <= 1
                 /\ AnswerDone => qaCalls = 1

C11_Witness ==
    /\ AnswerDone
    /\ SearchReturned
    /\ search_results = <<>>
    /\ collection # {}
    /\ qaCalls = 0

\* C13: a retrieval with top_k >= 0 over n candidates does not raise and
\* returns min(top_k, n) items, for search as for the guidelines.
C13_SearchTotalAndSized ==
    (SearchCalled /\ qa_top_k >= 0 /\ qa_document_id # "")
        => /\ ~SearchRaised
           /\ Len(search_results) = Min(qa_top_k, Cardinality(Candidates))

\* C16: search with a document_id returns chunks of that document only,
\* min(top_k, number of chunks stored for it) of them.
C16_OnlyChunksOfDocument ==
    (SearchCalled /\ qa_top_k >= 0 /\ qa_document_id # None)
        => /\ ~SearchRaised
           /\ \A i \in 1..Len(search_results) :
                 search_results[i].document_id = qa_document_id
           /\ Len(search_results) = Min(qa_top_k, Cardinality(Candidates))

SpanEnd(sp) == Min(sp.e, Len(text))

\* The text has a sentence terminator beginning at the 0-based position p.
TerminatorAt(p) ==
    \E k \in 1..Len(Terminators) : PySlice(text, p, p + 2) = Terminators[k]

IsCall1200 == Len(text) = 1200 /\ chunk_size = 500 /\ overlap = 50

\* C22: a document of 1200 characters chunked with chunk_size 500 and
\* overlap 50 gives exactly 3 chunks, and the spans of chunks that follow
\* each other overlap by 50 characters.
C22_ThreeChunksOverlapping ==
    (ChunkingDone /\ IsCall1200)
        => /\ Len(chunks) = 3
           /\ Len(KeptSpans) = 3
           /\ \A i \in 1..(Len(KeptSpans) - 1) :
                 SpanEnd(KeptSpans[i]) - KeptSpans[i + 1].s = 50

\* C22 amended: the same holds for the documents of 1200 characters that
\* have no sentence terminator beginning more than 250 characters into the
\* window at 0 or the window at 450 and lying inside it, and no character
\* other than whitespace missing from a window; the windows are then
\* [0, 500), [450, 950) and [900, 1200).
C22_ThreeWindowsWithoutSentenceCut ==
    (/\ ChunkingDone
     /\ IsCall1200
     /\ \A p \in (251..498) \cup (701..948) : ~TerminatorAt(p)
     /\ \A w \in {<<0, 500>>, <<450, 950>>, <<900, 1200>>} :
           ~Blank(PySlice(text, w[1], w[2])))
        => /\ Len(chunks) = 3
           /\ spans = <<[s |-> 0, e |-> 500, kept |-> TRUE],
                        [s |-> 450, e |-> 950, kept |-> TRUE],
                        [s |-> 900, e |-> 1400, kept |-> TRUE]>>
           /\ \A i \in 1..2 : SpanEnd(spans[i]) - spans[i + 1].s = 50

C22_Witness ==
    /\ ChunkingDone
    /\ IsCall1200
    /\ TerminatorAt(250)
    /\ Len(chunks) = 3
    /\ SpanEnd(spans[3]) = 1200

\* C29: with chunk_size 1000 and overlap 100, every chunk after the first
\* reaches beyond the end of the span of the chunk before it.
C29_ChunkReachesBeyondPredecessor ==
    (chunk_size = DefaultChunkSize /\ overlap = DefaultOverlap)
        => \A i \in 2..Len(KeptSpans) :
              SpanEnd(KeptSpans[i]) > SpanEnd(KeptSpans[i - 1])

(***************************************************************************)
(* Claims about the store                                                  *)
(***************************************************************************)
ChunksOf(coll, d) == {c \in coll : c.document_id = d}

\* C23: delete_document(d) returns True exactly when a chunk of d was
\* stored; after it no chunk of d is stored and the chunks of the other
\* documents are the ones stored before; when it returns False the store is
\* as before; a delete of a document already deleted returns False.
C23_DeleteRemovesExactlyTheDocument ==
    delete_call.called =>
        LET d == delete_call.document_id
            before == delete_call.before
        IN  /\ delete_call.deleted = (ChunksOf(before, d) # {})
            /\ ChunksOf(collection, d) = {}
            /\ \A o \in DocIds \ {d} :
                  ChunksOf(collection, o) = ChunksOf(before, o)
            /\ collection \subseteq before
            /\ ~delete_call.deleted => collection = before
            /\ delete_call.again => ~delete_call.deleted

C23_Witness ==
    /\ delete_call.called
    /\ delete_call.deleted
    /\ collection # {}
    /\ Cardinality(ChunksOf(delete_call.before, delete_call.document_id)) >= 2

\* C24: whatever documents were added and deleted, the chunks stored for a
\* document carry the chunk_index values 0..n-1, each once, and
\* total_chunks = n, where n is the number of its chunks stored; a chunk
\* is of one document, and a deleted document has no chunk left.
C24_StoredDocumentsAreWhole ==
    /\ \A d \in DocIds :
          LET of_d == ChunksOf(collection, d)
              n == Cardinality(of_d)
          IN  /\ {c.chunk_index : c \in of_d} = 0..(n - 1)
              /\ \A c \in of_d : c.total_chunks = n
              /\ \A c1, c2 \in of_d :
                    c1.chunk_index = c2.chunk_index => c1 = c2
              /\ d \in deleted_ids => of_d = {}
    /\ \A c \in collection : c.document_id \in used_ids

C24_Witness ==
    /\ deleted_ids # {}
    /\ \E d \in DocIds : Cardinality(ChunksOf(collection, d)) >= 2
    /\ delete_call = NoDelete

\* A window that does not reach the end of the text.
NotAtEnd(sp) == sp.s + chunk_size < Len(text)

\* A terminator begins in the window, more than half of chunk_size from its
\* start.
TerminatorBeginsLate(sp) ==
    \E p \in 0..(chunk_size - 1) :
        2 * p > chunk_size /\ TerminatorAt(sp.s + p)

\* The same with the two characters of the terminator inside the window.
TerminatorInsideLate(sp) ==
    \E p \in 0..(chunk_size - 2) :
        2 * p > chunk_size /\ TerminatorAt(sp.s + p)

\* The window ends right behind a terminator that begins more than half of
\* chunk_size from its start.
CutAfterTerminator(sp) ==
    /\ TerminatorAt(sp.e - 2)
    /\ 2 * (sp.e - 2 - sp.s) > chunk_size

\* C25: a window that does not reach the end of the text is cut right
\* behind a sentence terminator exactly if a terminator begins more than
\* half of chunk_size into the window, and else at chunk_size characters;
\* it is longer than half of chunk_size and not longer than chunk_size.
C25_CutBehindLateTerminator ==
    \A i \in 1..Len(spans) :
        LET sp == spans[i]
        IN  NotAtEnd(sp) =>
               /\ TerminatorBeginsLate(sp) <=> CutAfterTerminator(sp)
               /\ ~TerminatorBeginsLate(sp) => sp.e = sp.s + chunk_size
               /\ 2 * (sp.e - sp.s) > chunk_size
               /\ sp.e - sp.s <= chunk_size

\* C25 amended: the same, for the terminators whose two characters lie
\* inside the window; a terminator that begins at the last character of
\* the window does not move the cut.
C25_CutBehindLateTerminatorInside ==
    \A i \in 1..Len(spans) :
        LET sp == spans[i]
        IN  NotAtEnd(sp) =>
               /\ TerminatorInsideLate(sp) <=> CutAfterTerminator(sp)
               /\ ~TerminatorInsideLate(sp) => sp.e = sp.s + chunk_size
               /\ 2 * (sp.e - sp.s) > chunk_size
               /\ sp.e - sp.s <= chunk_size

C25_Witness ==
    /\ ChunkingDone
    /\ \E i \in 1..Len(spans) :
          /\ NotAtEnd(spans[i])
          /\ TerminatorInsideLate(spans[i])
          /\ CutAfterTerminator(spans[i])
          /\ spans[i].e < spans[i].s + chunk_size
          /\ PySlice(text, spans[i].e - 2, spans[i].e) # <<".", " ">>

(***************************************************************************)
(* Further claims about the /analyze request                               *)
(***************************************************************************)
Extracted == pc \in {"validate", "validated", "agent_done", "responded"}
                /\ response_text # NoResponse

ParseFailure == agentOutcome = Raised("ValueError") /\ response_json = NoJson

\* C26: extract_json_from_response returns a dictionary or raises
\* ValueError: a response without a JSON object ends in the parse failure,
\* and no value other than a dictionary reaches validation.
C26_DictOrValueError ==
    /\ Extracted =>
          \/ response_json # NoJson /\ response_json.isdict
          \/ pc \in {"agent_done", "responded"} /\ ParseFailure
    /\ (Extracted /\ response_text.kind # "object") =>
          (pc \in {"agent_done", "responded"} /\ ParseFailure)
    /\ pc \in {"validate", "validated"} => response_json.isdict

(***************************************************************************)
(* Claim about the service accessors                                       *)
(***************************************************************************)
\* C27: for each accessor at most one instance is ever constructed and
\* every call returns that instance, whatever the threads that call it.
C27_OneInstancePerAccessor ==
    \A a \in Accessors :
        /\ constructed[a] <= 1
        /\ Cardinality(handed_out[a]) <= 1

(***************************************************************************)
(* Claim about the citations of an answer                                  *)
(***************************************************************************)
\* C28: the sources returned with a generated answer are the chunks of the
\* prompt context, in the same order: source number i is the chunk
\* labelled [Source i], for i = 1..n.
C28_SourcesAreThePromptContext ==
    (AnswerDone /\ qaOutcome.kind = "returned" /\ qaCalls > 0)
        => /\ Len(qaOutcome.sources) = Len(context_parts)
           /\ \A i \in 1..Len(context_parts) :
                 /\ context_parts[i].label = i
                 /\ qaOutcome.sources[i].source_number = i
                 /\ ChunkRef(qaOutcome.sources[i]) = ChunkRef(context_parts[i])

====
